---- MODULE Spec2Model ----
(***************************************************************************)
(* A model of netschoolapi/client.py: the NetSchoolAPI session client, its *)
(* login handshake, its data-retrieval calls and its scoped-session        *)
(* (async with) protocol.                                                  *)
(*                                                                         *)
(* Strings are sequences of Unicode code points, byte strings sequences of *)
(* 0..255.  A 32-bit word is a pair <<hi, lo>> of 16-bit halves.           *)
(***************************************************************************)
EXTENDS Integers, Sequences, FiniteSets, TLC

\* Optional values: None is the empty sequence, Some(v) the one-element one.
None == << >>

Some(v) == << v >>

----------------------------------------------------------------------------
(* Sequence helpers *)

Take(s, n) == [i \in 1..(IF n < Len(s) THEN n ELSE Len(s)) |-> s[i]]

IsPrefix(p, s) == Len(p) <= Len(s) /\ \A i \in 1..Len(p) : p[i] = s[i]

RECURSIVE Flatten(_)
Flatten(ss) == IF ss = << >> THEN << >> ELSE Head(ss) \o Flatten(Tail(ss))

----------------------------------------------------------------------------
(* str.encode(): UTF-8, and str.encode("windows-1251") *)

Utf8Char(c) ==
    IF c < 128 THEN << c >>
    ELSE IF c < 2048 THEN << 192 + (c \div 64), 128 + (c % 64) >>
    ELSE << 224 + (c \div 4096), 128 + ((c \div 64) % 64), 128 + (c % 64) >>

Utf8Encode(s) == Flatten([i \in 1..Len(s) |-> Utf8Char(s[i])])

\* The code points of the bytes 0x80..0xFF of windows-1251 (-1: undefined).
Cp1251High ==
    << 1026, 1027, 8218, 1107, 8222, 8230, 8224, 8225, 8364, 8240, 1033, 8249,
       1034, 1036, 1035, 1039, 1106, 8216, 8217, 8220, 8221, 8226, 8211, 8212,
       -1, 8482, 1113, 8250, 1114, 1116, 1115, 1119, 160, 1038, 1118, 1032,
       164, 1168, 166, 167, 1025, 169, 1028, 171, 172, 173, 174, 1031, 176,
       177, 1030, 1110, 1169, 181, 182, 183, 1105, 8470, 1108, 187, 1112, 1029,
       1109, 1111, 1040, 1041, 1042, 1043, 1044, 1045, 1046, 1047, 1048, 1049,
       1050, 1051, 1052, 1053, 1054, 1055, 1056, 1057, 1058, 1059, 1060, 1061,
       1062, 1063, 1064, 1065, 1066, 1067, 1068, 1069, 1070, 1071, 1072, 1073,
       1074, 1075, 1076, 1077, 1078, 1079, 1080, 1081, 1082, 1083, 1084, 1085,
       1086, 1087, 1088, 1089, 1090, 1091, 1092, 1093, 1094, 1095, 1096, 1097,
       1098, 1099, 1100, 1101, 1102, 1103 >>

Cp1251Encodable(c) ==
    c >= 0 /\ (c < 128 \/ \E i \in 1..128 : Cp1251High[i] = c)

Cp1251Char(c) ==
    IF c < 128 THEN c ELSE 127 + (CHOOSE i \in 1..128 : Cp1251High[i] = c)

\* None when some character has no windows-1251 byte (UnicodeEncodeError).
Cp1251Encode(s) ==
    IF \A i \in 1..Len(s) : Cp1251Encodable(s[i])
    THEN Some([i \in 1..Len(s) |-> Cp1251Char(s[i])])
    ELSE None

----------------------------------------------------------------------------
(* hashlib.md5(...).hexdigest() *)

Add32(x, y) ==
    LET lo == x[2] + y[2]
        hi == x[1] + y[1] + (lo \div 65536)
    IN  << hi % 65536, lo % 65536 >>

Rotl32(x, s) ==
    LET hi == IF s >= 16 THEN x[2] ELSE x[1]
        lo == IF s >= 16 THEN x[1] ELSE x[2]
        r  == s % 16
        p  == 2 ^ r
        q  == 2 ^ (16 - r)
    IN  IF r = 0 THEN << hi, lo >>
        ELSE << ((hi * p) % 65536) + (lo \div q),
                ((lo * p) % 65536) + (hi \div q) >>

\* One bit of the round functions F, G, H, I of MD5.
Md5Bit(k, b, c, d) ==
    CASE k = 0 -> IF b = 1 THEN c ELSE d
      [] k = 1 -> IF d = 1 THEN b ELSE c
      [] k = 2 -> (b + c + d) % 2
      [] k = 3 -> (c + (IF b = 1 \/ d = 0 THEN 1 ELSE 0)) % 2

RECURSIVE Md5Mix16(_, _, _, _, _)
Md5Mix16(k, b, c, d, n) ==
    IF n = 0 THEN 0
    ELSE Md5Bit(k, b % 2, c % 2, d % 2)
         + 2 * Md5Mix16(k, b \div 2, c \div 2, d \div 2, n - 1)

Md5Mix(k, b, c, d) ==
    << Md5Mix16(k, b[1], c[1], d[1], 16), Md5Mix16(k, b[2], c[2], d[2], 16) >>

Md5K ==
    << <<55146, 42104>>, <<59591, 46934>>, <<9248, 28891>>, <<49597, 52974>>,
       <<62844, 4015>>, <<18311, 50730>>, <<43056, 17939>>, <<64838, 38145>>,
       <<27008, 39128>>, <<35652, 63407>>, <<65535, 23473>>, <<35164, 55230>>,
       <<27536, 4386>>, <<64920, 29075>>, <<42617, 17294>>, <<18868, 2081>>,
       <<63006, 9570>>, <<49216, 45888>>, <<9822, 23121>>, <<59830, 51114>>,
       <<54831, 4189>>, <<580, 5203>>, <<55457, 59009>>, <<59347, 64456>>,
       <<8673, 52710>>, <<49975, 2006>>, <<62677, 3463>>, <<17754, 5357>>,
       <<43491, 59653>>, <<64751, 41976>>, <<26479, 729>>, <<36138, 19594>>,
       <<65530, 14658>>, <<34673, 63105>>, <<28061, 24866>>, <<64997, 14348>>,
       <<42174, 59972>>, <<19422, 53161>>, <<63163, 19296>>, <<48831, 48240>>,
       <<10395, 32454>>, <<60065, 10234>>, <<54511, 12421>>, <<1160, 7429>>,
       <<55764, 53305>>, <<59099, 39397>>, <<8098, 31992>>, <<50348, 22117>>,
       <<62505, 8772>>, <<17194, 65431>>, <<43924, 9127>>, <<64659, 41017>>,
       <<25947, 22979>>, <<36620, 52370>>, <<65519, 62589>>, <<34180, 24017>>,
       <<28584, 32335>>, <<65068, 59104>>, <<41729, 17172>>, <<19976, 4513>>,
       <<63315, 32386>>, <<48442, 62005>>, <<10967, 53947>>, <<60294, 54161>> >>

Md5S ==
    << 7, 12, 17, 22, 7, 12, 17, 22, 7, 12, 17, 22, 7, 12, 17, 22,
       5, 9, 14, 20, 5, 9, 14, 20, 5, 9, 14, 20, 5, 9, 14, 20,
       4, 11, 16, 23, 4, 11, 16, 23, 4, 11, 16, 23, 4, 11, 16, 23,
       6, 10, 15, 21, 6, 10, 15, 21, 6, 10, 15, 21, 6, 10, 15, 21 >>

Md5Init == << <<26437, 8961>>, <<61389, 43913>>, <<39098, 56574>>, <<4146, 21622>> >>

\* Index (0-based) of the message word that round i reads.
Md5G(i) ==
    CASE i < 16 -> i
      [] i >= 16 /\ i < 32 -> (5 * i + 1) % 16
      [] i >= 32 /\ i < 48 -> (3 * i + 5) % 16
      [] i >= 48 -> (7 * i) % 16

\* Round i on the state st = <<A, B, C, D>> with the block's words M.
Md5Round(i, st, M) ==
    LET f == Md5Mix(i \div 16, st[2], st[3], st[4])
        t == Add32(Add32(st[1], f), Add32(Md5K[i + 1], M[Md5G(i) + 1]))
        b == Add32(st[2], Rotl32(t, Md5S[i + 1]))
    IN  << st[4], b, st[2], st[3] >>

\* Rounds lo..hi-1, in order.
RECURSIVE Md5Rounds(_, _, _, _)
Md5Rounds(lo, hi, st, M) ==
    IF hi - lo = 1 THEN Md5Round(lo, st, M)
    ELSE LET mid == (lo + hi) \div 2
             half == Md5Rounds(lo, mid, st, M)
         IN  IF Len(half) = 4 THEN Md5Rounds(mid, hi, half, M) ELSE half

\* The message followed by 0x80, zeros, and its bit length (64-bit LE).
Md5Pad(bytes) ==
    LET n  == Len(bytes)
        z  == (55 - n) % 64
        bl == 8 * n
    IN  bytes \o << 128 >> \o [i \in 1..z |-> 0]
        \o << bl % 256, (bl \div 256) % 256, (bl \div 65536) % 256,
              (bl \div 16777216) % 256, 0, 0, 0, 0 >>

Md5Words(p, blk) ==
    [j \in 1..16 |->
        LET o == 64 * blk + 4 * (j - 1)
        IN  << p[o + 3] + 256 * p[o + 4], p[o + 1] + 256 * p[o + 2] >>]

RECURSIVE Md5Blocks(_, _, _)
Md5Blocks(p, blk, st) ==
    IF Len(st) # 4 \/ 64 * blk >= Len(p) THEN st
    ELSE LET r == Md5Rounds(0, 64, st, Md5Words(p, blk))
         IN  Md5Blocks(p, blk + 1,
                       << Add32(st[1], r[1]), Add32(st[2], r[2]),
                          Add32(st[3], r[3]), Add32(st[4], r[4]) >>)

HexDigit(n) == IF n < 10 THEN 48 + n ELSE 87 + n

HexByte(b) == << HexDigit(b \div 16), HexDigit(b % 16) >>

WordBytesLE(w) == << w[2] % 256, w[2] \div 256, w[1] % 256, w[1] \div 256 >>

\* md5(bytes).hexdigest(): 32 lower-case hex characters.
Md5Hex(bytes) ==
    LET st == Md5Blocks(Md5Pad(bytes), 0, Md5Init)
        d  == Flatten([i \in 1..4 |-> WordBytesLE(st[i])])
    IN  Flatten([i \in 1..16 |-> HexByte(d[i])])

----------------------------------------------------------------------------
(* datetime.date: a date is [y, m, d]; arithmetic goes through ordinals *)

IsLeap(y) == y % 4 = 0 /\ (y % 100 # 0 \/ y % 400 = 0)

DaysBeforeYear(y) ==
    LET p == y - 1 IN p * 365 + (p \div 4) - (p \div 100) + (p \div 400)

DaysInMonth(y, m) ==
    IF m = 2 THEN (IF IsLeap(y) THEN 29 ELSE 28)
    ELSE IF m \in {4, 6, 9, 11} THEN 30 ELSE 31

RECURSIVE DaysBeforeMonth(_, _)
DaysBeforeMonth(y, m) ==
    IF m = 1 THEN 0 ELSE DaysBeforeMonth(y, m - 1) + DaysInMonth(y, m - 1)

ToOrdinal(dt) == DaysBeforeYear(dt.y) + DaysBeforeMonth(dt.y, dt.m) + dt.d

\* datetime._ord2ymd
FromOrdinal(n) ==
    LET n0   == n - 1
        n400 == n0 \div 146097
        r400 == n0 % 146097
        n100 == r400 \div 36524
        r100 == r400 % 36524
        n4   == r100 \div 1461
        r4   == r100 % 1461
        n1   == r4 \div 365
        r1   == r4 % 365
        year == n400 * 400 + n100 * 100 + n4 * 4 + n1 + 1
    IN  IF n1 = 4 \/ n100 = 4
        THEN [y |-> year - 1, m |-> 12, d |-> 31]
        ELSE LET mm == CHOOSE k \in 1..12 :
                          /\ DaysBeforeMonth(year, k) <= r1
                          /\ r1 < DaysBeforeMonth(year, k) + DaysInMonth(year, k)
             IN  [y |-> year, m |-> mm, d |-> r1 - DaysBeforeMonth(year, mm) + 1]

\* date.weekday(): Monday is 0
Weekday(dt) == (ToOrdinal(dt) + 6) % 7

\* date +/- timedelta(days = n): None on OverflowError, outside
\* 0001-01-01 (ordinal 1) .. 9999-12-31 (ordinal 3652059)
DateAdd(dt, n) ==
    LET o == ToOrdinal(dt) + n
    IN  IF o < 1 \/ o > 3652059 THEN None ELSE Some(FromOrdinal(o))

Digit(n) == 48 + n

\* date.isoformat(): "%04d-%02d-%02d"
IsoFormat(dt) ==
    << Digit(dt.y \div 1000), Digit((dt.y \div 100) % 10),
       Digit((dt.y \div 10) % 10), Digit(dt.y % 10), 45,
       Digit(dt.m \div 10), Digit(dt.m % 10), 45,
       Digit(dt.d \div 10), Digit(dt.d % 10) >>

----------------------------------------------------------------------------
(* Bounds and input domains *)

\* Operations (a scope entry or a data-retrieval call) one run may start.
MaxOps == 2

\* Longest list of assignments passed to get_attachments.
MaxAssign == 2

Str(c, n) == [i \in 1..n |-> c]

\* "abc123", and a password with a character windows-1251 lacks.
Passwords == { << 97, 98, 99, 49, 50, 51 >>, << 97, 26085 >> }

UserName == "ivanov"

School == << "RU", "Region", "City", "Type", "School 1" >>

Salts == { << 83 >> }

Tokens == { "T1", "T2" }

\* Server messages: "x" * n, and another text of 29 characters.
Messages == { Str(120, 0), Str(120, 5), Str(120, 28), Str(120, 29),
              Str(121, 29), Str(120, 30) }

StudentKeys == { 0, 1 }

YearIds == { 2020 }

Todays == { [y |-> 2020, m |-> 11, d |-> 5], [y |-> 2020, m |-> 3, d |-> 1],
            [y |-> 2021, m |-> 1, d |-> 1], [y |-> 2024, m |-> 2, d |-> 26] }

GivenDates == { [y |-> 2020, m |-> 2, d |-> 26], [y |-> 9999, m |-> 12, d |-> 30] }

AssignIds == { 7, 8 }

Assignments == [id : AssignIds]

AssignmentLists ==
    UNION { [1..n -> Assignments] : n \in 0..MaxAssign }

Takes == { -1, 3 }

----------------------------------------------------------------------------
(* The server: what a request can be answered with *)

NoBody == [text |-> "<html>"]

\* The transport fails: client.get / client.post raises.
NetError == [kind |-> "error", cookie |-> None, body |-> NoBody]

\* A body that is not JSON.
TextBody == [kind |-> "text", cookie |-> None, body |-> NoBody]

Json(b) == [kind |-> "json", cookie |-> None, body |-> b]

LoginDataResponses ==
    { NetError,
      [kind |-> "text", cookie |-> Some("sid"), body |-> NoBody],
      [kind |-> "json", cookie |-> Some("sid"), body |-> NoBody] }

GetDataResponses ==
    { NetError, TextBody, Json([lt |-> "7", ver |-> "9"]) }
    \cup { Json([salt |-> sl, lt |-> "7", ver |-> "9"]) : sl \in Salts }

LoginResponses ==
    { NetError, TextBody, Json([other |-> "x"]) }
    \cup { Json([at |-> t]) : t \in Tokens }
    \cup { Json([message |-> m]) : m \in Messages }
    \cup { Json([at |-> t, message |-> Str(120, 29)]) : t \in Tokens }

Students == [k \in StudentKeys |-> [studentId |-> 100 + k]]

InitResponses ==
    { NetError, TextBody, Json([students |-> Students]) }
    \cup { Json([students |-> Students, currentStudentId |-> k]) :
             k \in StudentKeys \cup { 2 } }

ContextResponses ==
    { NetError, TextBody, Json([userId |-> 1]) }
    \cup { Json([schoolYearId |-> yr]) : yr \in YearIds }

DataResponses == { NetError, TextBody, Json([payload |-> "ok"]) }

\* The login page: the hidden fields found in it.
Page(fields) == [kind |-> "text", cookie |-> None, body |-> fields]

FormResponses ==
    { NetError, Page([cid |-> "2", scid |-> "11"]), Page([cid |-> "2"]) }

----------------------------------------------------------------------------
(* Errors raised to the caller *)

NoError == [type |-> "None", msg |-> << >>]

Error(t) == [type |-> t, msg |-> << >>]

\* utils._json_or_panic: the decoded body, or Invalid Response.
JsonOrPanic(resp) ==
    IF resp.kind = "json"
    THEN [ok |-> TRUE, val |-> resp.body, err |-> NoError]
    ELSE [ok |-> FALSE, val |-> NoBody, err |-> Error("InvalidResponse")]

\* {**a, **b}: the keys of b override those of a.
Merge(a, b) == b @@ a

\* dict.pop(key) leaves the other keys.
Without(dict, key) == [k \in DOMAIN dict \ { key } |-> dict[k]]

\* A variant of LoginDigest: the password is encoded as UTF-8.
LoginDigestUtf8(pwd, slt) ==
    LET encoded_password == Utf8Encode(Md5Hex(Utf8Encode(pwd)))
        pw2 == Md5Hex(Utf8Encode(slt) \o encoded_password)
    IN  Some([pw |-> Take(pw2, Len(pwd)), pw2 |-> pw2])

\* lines 91-93: the digests submitted for a password and a salt
\* (None: the password has no windows-1251 encoding).
LoginDigest(pwd, slt) ==
    LET enc == Cp1251Encode(pwd)
    IN  IF enc = None THEN None
        ELSE LET encoded_password == Utf8Encode(Md5Hex(enc[1]))
                 pw2 == Md5Hex(Utf8Encode(slt) \o encoded_password)
             IN  Some([pw |-> Take(pw2, Len(pwd)), pw2 |-> pw2])

----------------------------------------------------------------------------
(* State *)

VARIABLES
    password,      \* self._password
    user_id,       \* self._user_id
    year_id,       \* self._year_id
    headers_at,    \* self._client.headers["at"]
    cookies,       \* self._client.cookies
    client_state,  \* self._client: "unopened", "opened" or "closed"
    pc,            \* where the caller or the running coroutine stands
    locals,        \* _login's login_data, pw, pw2 and form fields
    exc,           \* the exception the scope body ended with
    req,           \* the last request issued
    resp,          \* the response it got
    err,           \* what the last operation raised
    last,          \* the last step taken
    nreq,          \* requests issued by the operation in progress or just ended
    arg,           \* the arguments of the last data-retrieval call
    ops,           \* operations started
    last_at,       \* the token of the last login response that had one
    login_user_id, \* the student id stored by the last login that stored one
    open_token,    \* a token was returned and no auth/logout was posted since
    scope_logouts, \* auth/logout posts of the scope entered last
    last_exit      \* how control last left a scoped session

vars == << password, user_id, year_id, headers_at, cookies, client_state, pc,
           locals, exc, req, resp, err, last, nreq, arg, ops, last_at,
           login_user_id, open_token, scope_logouts, last_exit >>

NoLocals == [login_data |-> << >>, pw |-> << >>, pw2 |-> << >>, form |-> << >>]

NoArg == [op |-> "None"]

\* A request carries the client-level headers and cookies.
Request(method, path, params, data, json) ==
    [method |-> method, path |-> path, at |-> headers_at, cookie |-> cookies,
     params |-> params, data |-> data, json |-> json]

NoRequest ==
    [method |-> "None", path |-> << >>, at |-> None, cookie |-> None,
     params |-> << >>, data |-> << >>, json |-> << >>]

\* lines 20-30: a new object, whatever its password
Constructed ==
    /\ user_id = None
    /\ year_id = None
    /\ headers_at = None
    /\ cookies = None
    /\ client_state = "unopened"
    /\ pc = "idle"
    /\ locals = NoLocals
    /\ exc = None
    /\ req = NoRequest
    /\ resp = NetError
    /\ err = NoError
    /\ last = "init"
    /\ nreq = 0
    /\ arg = NoArg
    /\ ops = 0
    /\ last_at = None
    /\ login_user_id = None
    /\ open_token = FALSE
    /\ scope_logouts = 0
    /\ last_exit = "none"

\* lines 13-30
Init ==
    /\ password \in Passwords
    /\ Constructed

----------------------------------------------------------------------------
(* _login, lines 84-122, one action per request *)

\* An exception leaves the async with block of _login and then __aenter__:
\* the client is closed and __aexit__ does not run.
LoginRaise(e) ==
    /\ err' = e
    /\ pc' = "idle"
    /\ client_state' = "closed"
    /\ locals' = NoLocals
    /\ last_exit' = "login_failed"

LoginGoes(next) ==
    /\ err' = NoError
    /\ pc' = next
    /\ client_state' = "opened"
    /\ UNCHANGED last_exit

\* lines 128-129, 85-86: __aenter__ starts _login; GET logindata
LoginCookies ==
    /\ pc = "idle"
    /\ ops < MaxOps
    /\ \E r \in LoginDataResponses :
        /\ req' = Request("GET", << "logindata" >>, << >>, << >>, << >>)
        /\ resp' = r
        /\ IF r.kind = "error"
           THEN /\ LoginRaise(Error("TransportError"))
                /\ UNCHANGED cookies
           ELSE /\ LoginGoes("getdata")
                /\ locals' = NoLocals
                /\ cookies' = IF r.cookie # None THEN r.cookie ELSE cookies
    /\ last' = "logindata"
    /\ nreq' = 1
    /\ ops' = ops + 1
    /\ exc' = None
    /\ arg' = NoArg
    /\ UNCHANGED << password, user_id, year_id, headers_at, last_at,
                    login_user_id, open_token, scope_logouts >>

\* lines 88-93: POST auth/getdata, then the digests
LoginGetData ==
    /\ pc = "getdata"
    /\ \E r \in GetDataResponses :
        /\ req' = Request("POST", << "auth/getdata" >>, << >>, << >>, << >>)
        /\ resp' = r
        /\ LET login_data == JsonOrPanic(r)
           IN  IF r.kind = "error" THEN LoginRaise(Error("TransportError"))
               ELSE IF ~login_data.ok THEN LoginRaise(login_data.err)
               ELSE IF "salt" \notin DOMAIN login_data.val
                    THEN LoginRaise(Error("KeyError"))
               ELSE LET dig == LoginDigest(password, login_data.val.salt)
                    IN  IF dig = None
                        THEN LoginRaise(Error("UnicodeEncodeError"))
                        ELSE /\ LoginGoes("form")
                             /\ locals' =
                                  [login_data |-> Without(login_data.val, "salt"),
                                   pw |-> dig[1].pw, pw2 |-> dig[1].pw2,
                                   form |-> << >>]
    /\ last' = "getdata"
    /\ nreq' = nreq + 1
    /\ UNCHANGED << password, user_id, year_id, headers_at, cookies, exc, arg,
                    ops, last_at, login_user_id, open_token, scope_logouts >>

\* line 99: _get_login_form(client, self._school) fetches the login page
LoginForm ==
    /\ pc = "form"
    /\ \E r \in FormResponses :
        /\ req' = Request("GET", << "loginform" >>, [school |-> School],
                          << >>, << >>)
        /\ resp' = r
        /\ IF r.kind = "error" THEN LoginRaise(Error("TransportError"))
           ELSE IF { "cid", "scid" } \subseteq DOMAIN r.body
                THEN /\ LoginGoes("post")
                     /\ locals' = [locals EXCEPT !.form = r.body]
                ELSE LoginRaise(Error("LoginFormError"))
    /\ last' = "loginform"
    /\ nreq' = nreq + 1
    /\ UNCHANGED << password, user_id, year_id, headers_at, cookies, exc, arg,
                    ops, last_at, login_user_id, open_token, scope_logouts >>

\* lines 95-104: the form posted to login
LoginFormData ==
    Merge(Merge(Merge([logintype |-> "1"], locals.form),
                [un |-> UserName, pw |-> locals.pw, pw2 |-> locals.pw2]),
          locals.login_data)

\* A variant of LoginFailure: any message of 29 characters or more is
\* taken for bad credentials.
LoginFailureFrom29(error_message) ==
    IF Len(error_message) >= 29
    THEN Error("LoginDataError")
    ELSE [type |-> "NetSchoolAPIError", msg |-> error_message]

\* lines 109-113: the error a login response without "at" raises
LoginFailure(error_message) ==
    IF Len(error_message) = 29
    THEN Error("LoginDataError")
    ELSE [type |-> "NetSchoolAPIError", msg |-> error_message]

\* A variant of NewHeaderAt: headers.setdefault("at", ...), which keeps a
\* token that is already there.
NewHeaderAtKeep(old, at) == IF old = None THEN Some(at) ELSE old

\* line 115: client.headers["at"] = response["at"]
NewHeaderAt(old, at) == Some(at)

\* lines 95-115: POST login; the response is classified
LoginPost ==
    /\ pc = "post"
    /\ \E r \in LoginResponses :
        /\ req' = Request("POST", << "login" >>, << >>, LoginFormData, << >>)
        /\ resp' = r
        /\ LET response == JsonOrPanic(r)
           IN  IF r.kind = "error"
               THEN /\ LoginRaise(Error("TransportError"))
                    /\ UNCHANGED << headers_at, last_at, open_token >>
               ELSE IF ~response.ok
               THEN /\ LoginRaise(response.err)
                    /\ UNCHANGED << headers_at, last_at, open_token >>
               ELSE IF "at" \notin DOMAIN response.val
               THEN /\ IF "message" \notin DOMAIN response.val
                       THEN LoginRaise(Error("KeyError"))
                       ELSE LoginRaise(LoginFailure(response.val.message))
                    /\ UNCHANGED << headers_at, last_at, open_token >>
               ELSE /\ LoginGoes("init")
                    /\ headers_at' = NewHeaderAt(headers_at, response.val.at)
                    /\ last_at' = Some(response.val.at)
                    /\ open_token' = TRUE
                    /\ UNCHANGED locals
    /\ last' = "login"
    /\ nreq' = nreq + 1
    /\ UNCHANGED << password, user_id, year_id, cookies, exc, arg, ops,
                    login_user_id, scope_logouts >>

\* lines 117-119: GET student/diary/init; the student id is stored
LoginInit ==
    /\ pc = "init"
    /\ \E r \in InitResponses :
        /\ req' = Request("GET", << "student/diary/init" >>, << >>, << >>, << >>)
        /\ resp' = r
        /\ LET diary == JsonOrPanic(r)
           IN  IF r.kind = "error"
               THEN /\ LoginRaise(Error("TransportError"))
                    /\ UNCHANGED << user_id, login_user_id >>
               ELSE IF ~diary.ok
               THEN /\ LoginRaise(diary.err)
                    /\ UNCHANGED << user_id, login_user_id >>
               ELSE IF \/ ~({ "students", "currentStudentId" }
                               \subseteq DOMAIN diary.val)
                       \/ diary.val.currentStudentId
                             \notin DOMAIN diary.val.students
               THEN /\ LoginRaise(Error("KeyError"))
                    /\ UNCHANGED << user_id, login_user_id >>
               ELSE LET student ==
                          diary.val.students[diary.val.currentStudentId]
                    IN  /\ LoginGoes("context")
                        /\ user_id' = Some(student.studentId)
                        /\ login_user_id' = Some(student.studentId)
                        /\ UNCHANGED locals
    /\ last' = "diary/init"
    /\ nreq' = nreq + 1
    /\ UNCHANGED << password, year_id, headers_at, cookies, exc, arg, ops,
                    last_at, open_token, scope_logouts >>

\* lines 121-122, 130: GET context; the year id is stored, the block of
\* _login ends and __aenter__ returns: the caller is inside the scope
LoginContext ==
    /\ pc = "context"
    /\ \E r \in ContextResponses :
        /\ req' = Request("GET", << "context" >>, << >>, << >>, << >>)
        /\ resp' = r
        /\ LET context == JsonOrPanic(r)
           IN  IF r.kind = "error"
               THEN /\ LoginRaise(Error("TransportError"))
                    /\ UNCHANGED << year_id, scope_logouts >>
               ELSE IF ~context.ok
               THEN /\ LoginRaise(context.err)
                    /\ UNCHANGED << year_id, scope_logouts >>
               ELSE IF "schoolYearId" \notin DOMAIN context.val
               THEN /\ LoginRaise(Error("KeyError"))
                    /\ UNCHANGED << year_id, scope_logouts >>
               ELSE /\ year_id' = Some(context.val.schoolYearId)
                    /\ err' = NoError
                    /\ pc' = "scope"
                    /\ client_state' = "closed"
                    /\ locals' = NoLocals
                    /\ last_exit' = "entered"
                    /\ scope_logouts' = 0
    /\ last' = "context"
    /\ nreq' = nreq + 1
    /\ UNCHANGED << password, user_id, headers_at, cookies, exc, arg, ops,
                    last_at, login_user_id, open_token >>

----------------------------------------------------------------------------
(* The data-retrieval calls, lines 32-82: one request each *)

OptDates == { None } \cup { Some(dt) : dt \in GivenDates }

OptEnds == { None, Some([y |-> 2020, m |-> 12, d |-> 31]) }

\* The caller is between operations, outside or inside a scoped session.
CanCall == pc \in { "idle", "scope" } /\ ops < MaxOps

\* A variant of DataCall: the response is used without _json_or_panic.
DataCallUndecoded(name, request, r) ==
    /\ req' = request
    /\ resp' = r
    /\ err' = IF r.kind = "error" THEN Error("TransportError") ELSE NoError
    /\ client_state' = "closed"
    /\ nreq' = 1
    /\ last' = name
    /\ ops' = ops + 1
    /\ UNCHANGED << password, user_id, year_id, headers_at, cookies, pc,
                    locals, exc, last_at, login_user_id, open_token,
                    scope_logouts, last_exit >>

\* One request inside "async with self._client", its response decoded
\* by _json_or_panic; the block's exit closes the client.
DataCall(name, request, r) ==
    /\ req' = request
    /\ resp' = r
    /\ err' = IF r.kind = "error" THEN Error("TransportError")
              ELSE JsonOrPanic(r).err
    /\ client_state' = "closed"
    /\ nreq' = 1
    /\ last' = name
    /\ ops' = ops + 1
    /\ UNCHANGED << password, user_id, year_id, headers_at, cookies, pc,
                    locals, exc, last_at, login_user_id, open_token,
                    scope_logouts, last_exit >>

\* A variant of WeekStart: the week counted from Sunday (isoweekday % 7).
WeekStartSunday(today, ws) ==
    IF ws = None
    THEN DateAdd(today[1], 0 - ((Weekday(today[1]) + 1) % 7))
    ELSE ws

\* lines 37-41: the bounds of the week, None where the date overflows
WeekStart(today, ws) ==
    IF ws = None THEN DateAdd(today[1], 0 - Weekday(today[1])) ELSE ws

WeekEnd(week_start, we) ==
    IF we # None THEN we
    ELSE IF week_start = None THEN None
    ELSE DateAdd(week_start[1], 5)

\* date.today(), read only when week_start is omitted
TodaysFor(ws) == IF ws = None THEN { Some(dt) : dt \in Todays } ELSE { None }

\* lines 32-53
GetDiary ==
    /\ CanCall
    /\ \E ws \in OptDates, we \in OptEnds, r \in DataResponses :
        \E today \in TodaysFor(ws) :
        LET week_start == WeekStart(today, ws)
            week_end   == WeekEnd(week_start, we)
        IN  /\ arg' = [op |-> "get_diary", today |-> today,
                       week_start |-> ws, week_end |-> we]
            /\ IF week_start = None \/ week_end = None
               THEN /\ err' = Error("OverflowError")
                    /\ nreq' = 0
                    /\ last' = "get_diary"
                    /\ ops' = ops + 1
                    /\ UNCHANGED << password, user_id, year_id, headers_at,
                                    cookies, client_state, pc, locals, exc,
                                    req, resp, last_at, login_user_id,
                                    open_token, scope_logouts, last_exit >>
               ELSE DataCall("get_diary",
                        Request("GET", << "student/diary" >>,
                                [studentId |-> user_id,
                                 weekStart |-> IsoFormat(week_start[1]),
                                 weekEnd |-> IsoFormat(week_end[1]),
                                 yearId |-> year_id],
                                << >>, << >>), r)

\* lines 55-62
GetAnnouncements ==
    /\ CanCall
    /\ \E take \in Takes, r \in DataResponses :
        /\ arg' = [op |-> "get_announcements", take |-> take]
        /\ DataCall("get_announcements",
               Request("GET", << "announcements" >>, [take |-> take],
                       << >>, << >>), r)

\* lines 64-71
GetDetails ==
    /\ CanCall
    /\ \E assignment \in Assignments, r \in DataResponses :
        /\ arg' = [op |-> "get_details", assignment |-> assignment]
        /\ DataCall("get_details",
               Request("GET", << "student/diary/assigns", assignment.id >>,
                       << >>, << >>, << >>), r)

\* A variant of AssignIdsOf: the ids in reverse order.
AssignIdsReversed(assignments) ==
    [i \in 1..Len(assignments) |->
        assignments[Len(assignments) + 1 - i].id]

\* line 80: [a.id for a in assignments]
AssignIdsOf(assignments) == [i \in 1..Len(assignments) |-> assignments[i].id]

\* lines 73-82
GetAttachments ==
    /\ CanCall
    /\ \E assignments \in AssignmentLists, r \in DataResponses :
        /\ arg' = [op |-> "get_attachments", assignments |-> assignments]
        /\ DataCall("get_attachments",
               Request("POST", << "student/diary/get-attachments" >>,
                       [studentId |-> user_id], << >>,
                       [assignId |-> AssignIdsOf(assignments)]), r)

----------------------------------------------------------------------------
(* The scoped session: async with NetSchoolAPI(...) as api: body *)

\* The body of the scope returns.
BodyReturn ==
    /\ pc = "scope"
    /\ pc' = "exit"
    /\ exc' = None
    /\ UNCHANGED << password, user_id, year_id, headers_at, cookies,
                    client_state, locals, req, resp, err, last, nreq, arg,
                    ops, last_at, login_user_id, open_token, scope_logouts,
                    last_exit >>

\* A variant of BodyRaise: the exception leaves the scope without __aexit__.
BodyRaiseSkipsExit ==
    /\ pc = "scope"
    /\ pc' = "idle"
    /\ exc' = None
    /\ err' = Error("BodyError")
    /\ last_exit' = "exited"
    /\ UNCHANGED << password, user_id, year_id, headers_at, cookies,
                    client_state, locals, req, resp, last, nreq, arg, ops,
                    last_at, login_user_id, open_token, scope_logouts >>

\* The body of the scope raises.
BodyRaise ==
    /\ pc = "scope"
    /\ pc' = "exit"
    /\ exc' = Some("BodyError")
    /\ UNCHANGED << password, user_id, year_id, headers_at, cookies,
                    client_state, locals, req, resp, err, last, nreq, arg,
                    ops, last_at, login_user_id, open_token, scope_logouts,
                    last_exit >>

LogoutResponses == { NetError, TextBody, Json([ok |-> "true"]) }

\* A variant of Logout: __aexit__ logs out only when the body returned.
LogoutUnlessRaised ==
    /\ pc = "exit"
    /\ IF exc # None
       THEN /\ err' = Error(exc[1])
            /\ UNCHANGED << req, resp, nreq, client_state, open_token,
                            scope_logouts >>
       ELSE /\ \E r \in LogoutResponses :
                /\ req' = Request("POST", << "auth/logout" >>, << >>, << >>,
                                  << >>)
                /\ resp' = r
                /\ err' = IF r.kind = "error" THEN Error("TransportError")
                          ELSE NoError
            /\ client_state' = "closed"
            /\ nreq' = 1
            /\ open_token' = FALSE
            /\ scope_logouts' = scope_logouts + 1
    /\ pc' = "idle"
    /\ exc' = None
    /\ last' = "logout"
    /\ last_exit' = "exited"
    /\ arg' = NoArg
    /\ UNCHANGED << password, user_id, year_id, headers_at, cookies, locals,
                    ops, last_at, login_user_id >>

\* A variant of Logout: the token and the identifiers are cleared.
LogoutClearsSession ==
    /\ pc = "exit"
    /\ \E r \in LogoutResponses :
        /\ req' = Request("POST", << "auth/logout" >>, << >>, << >>, << >>)
        /\ resp' = r
        /\ err' = IF r.kind = "error" THEN Error("TransportError")
                  ELSE IF exc # None THEN Error(exc[1])
                  ELSE NoError
    /\ client_state' = "closed"
    /\ pc' = "idle"
    /\ exc' = None
    /\ last' = "logout"
    /\ nreq' = 1
    /\ open_token' = FALSE
    /\ scope_logouts' = scope_logouts + 1
    /\ last_exit' = "exited"
    /\ arg' = NoArg
    /\ headers_at' = None
    /\ user_id' = None
    /\ year_id' = None
    /\ UNCHANGED << password, cookies, locals, ops, last_at, login_user_id >>

\* lines 132-133, 124-126: __aexit__ awaits _logout: POST auth/logout.
\* __aexit__ returns None, so the exception of the body goes on to the caller.
Logout ==
    /\ pc = "exit"
    /\ \E r \in LogoutResponses :
        /\ req' = Request("POST", << "auth/logout" >>, << >>, << >>, << >>)
        /\ resp' = r
        /\ err' = IF r.kind = "error" THEN Error("TransportError")
                  ELSE IF exc # None THEN Error(exc[1])
                  ELSE NoError
    /\ client_state' = "closed"
    /\ pc' = "idle"
    /\ exc' = None
    /\ last' = "logout"
    /\ nreq' = 1
    /\ open_token' = FALSE
    /\ scope_logouts' = scope_logouts + 1
    /\ last_exit' = "exited"
    /\ arg' = NoArg
    /\ UNCHANGED << password, user_id, year_id, headers_at, cookies, locals,
                    ops, last_at, login_user_id >>

----------------------------------------------------------------------------

Next ==
    \/ LoginCookies
    \/ LoginGetData
    \/ LoginForm
    \/ LoginPost
    \/ LoginInit
    \/ LoginContext
    \/ GetDiary
    \/ GetAnnouncements
    \/ GetDetails
    \/ GetAttachments
    \/ BodyReturn
    \/ BodyRaise
    \/ Logout

Spec == Init /\ [][Next]_vars

----------------------------------------------------------------------------
(* The digests of lines 91-93 on their own: a password, then a salt *)

\* The passwords the digests are computed for: "abc123", the empty one,
\* Cyrillic ones, some with 31, 32, 33 and 60 characters, and one with a
\* character windows-1251 lacks.
HashPasswords ==
    << << 97, 98, 99, 49, 50, 51 >>,
       << >>,
       << 97 >>,
       << 1087, 1072, 1088 >>,
       << 1025, 1078, 8364 >>,
       Str(97, 31),
       Str(97, 32),
       Str(97, 33),
       Str(98, 60),
       << 97, 26085 >> >>

\* The salts: ASCII, empty, Cyrillic, the euro sign, and one of 24 characters.
HashSalts ==
    << << 83 >>,
       << >>,
       << 48 >>,
       << 49, 50, 51, 52, 53, 54, 55, 56, 57, 48 >>,
       << 1089, 1086, 1083, 1100 >>,
       << 8364 >>,
       << 115, 97, 108, 116 >>,
       << 97, 98, 99, 100, 101, 102 >>,
       << 57, 102, 56, 101, 55, 100 >>,
       << 48, 49, 50, 51, 52, 53, 54, 55, 56, 57, 97, 98, 99, 100, 101, 102,
          48, 49, 50, 51, 52, 53, 54, 55 >> >>

\* hashlib's md5(salt + md5(password.encode("windows-1251")).hexdigest())
\* .hexdigest() for HashPasswords[i] and HashSalts[j], in groups of four
\* hexadecimal digits.
ReferenceDigests ==
    << << << 32818, 14424, 28038, 1899, 43338, 8256, 37349, 12918 >>,
          << 22514, 12721, 60481, 56422, 16679, 3248, 39510, 63639 >>,
          << 54004, 6521, 59964, 42944, 25828, 19327, 20200, 62617 >>,
          << 28164, 46898, 56203, 10356, 52667, 12045, 6694, 59784 >>,
          << 44267, 35654, 17902, 28788, 23170, 3263, 5645, 60370 >>,
          << 6286, 52317, 13064, 33645, 13034, 32236, 54171, 22827 >>,
          << 51955, 58052, 13612, 21292, 53274, 59825, 62048, 57048 >>,
          << 47469, 60378, 18433, 15483, 56463, 16983, 41913, 8475 >>,
          << 54084, 59261, 29312, 29474, 29491, 58111, 51095, 15750 >>,
          << 60333, 26690, 53501, 35231, 16573, 10788, 10484, 44859 >> >>,
       << << 3137, 63972, 54658, 25044, 53482, 36684, 47012, 52895 >>,
          << 29886, 5783, 38672, 54468, 59334, 25720, 22024, 33878 >>,
          << 31404, 25140, 2629, 55687, 18119, 315, 63236, 15337 >>,
          << 53941, 27216, 39135, 61800, 40211, 6296, 942, 2120 >>,
          << 52548, 46344, 35710, 58459, 16494, 36751, 50934, 34214 >>,
          << 52993, 26625, 57584, 52818, 35961, 29856, 15864, 60474 >>,
          << 55185, 4977, 36261, 20634, 15725, 12465, 36545, 13589 >>,
          << 27365, 48436, 52270, 11730, 51118, 31008, 44924, 60894 >>,
          << 25103, 30524, 32635, 43480, 16631, 50138, 11550, 58381 >>,
          << 4115, 1503, 25141, 61559, 22597, 18632, 679, 22756 >> >>,
       << << 64186, 53888, 35824, 25412, 32470, 17070, 40929, 58366 >>,
          << 55215, 56894, 28761, 52490, 4064, 40684, 19200, 2253 >>,
          << 59213, 45065, 40458, 11701, 11167, 4169, 30535, 12815 >>,
          << 22904, 27234, 52635, 23146, 21900, 25441, 13775, 36502 >>,
          << 38951, 3988, 49552, 20614, 7021, 29928, 31231, 52381 >>,
          << 38949, 32123, 45426, 56648, 54249, 15400, 678, 32286 >>,
          << 9297, 7472, 58603, 32059, 16361, 33614, 48513, 62431 >>,
          << 32653, 47725, 41724, 20510, 43129, 19624, 15135, 6475 >>,
          << 1660, 40285, 57425, 53742, 4945, 5520, 39951, 26602 >>,
          << 20134, 53535, 55935, 39369, 5543, 56997, 59830, 8966 >> >>,
       << << 2302, 14773, 35718, 1461, 26176, 56130, 60966, 17464 >>,
          << 17323, 13236, 43650, 36826, 2157, 28163, 52824, 42300 >>,
          << 3811, 49823, 54885, 12050, 18833, 4285, 48397, 7035 >>,
          << 48249, 27300, 53713, 24621, 65405, 33334, 15016, 46853 >>,
          << 27746, 2849, 27898, 60987, 11562, 56484, 36831, 56705 >>,
          << 33849, 33938, 28031, 7066, 1843, 48728, 5182, 6950 >>,
          << 32440, 55682, 30769, 15041, 21331, 2082, 40887, 46111 >>,
          << 19270, 10159, 7211, 34444, 32953, 22862, 40890, 27209 >>,
          << 6860, 63776, 49007, 64253, 17284, 2419, 318, 38116 >>,
          << 39790, 38366, 8453, 41137, 59298, 63827, 25884, 36756 >> >>,
       << << 10952, 6155, 3702, 62496, 18057, 31070, 11078, 61834 >>,
          << 58967, 17049, 54487, 2998, 9568, 32211, 7878, 31309 >>,
          << 17354, 61586, 12190, 38381, 57246, 19477, 5907, 60175 >>,
          << 12179, 45530, 25599, 61192, 23795, 6970, 15430, 10084 >>,
          << 60985, 51399, 12508, 18509, 54028, 28857, 63435, 53760 >>,
          << 7777, 51828, 46016, 8797, 3026, 33303, 6204, 33891 >>,
          << 56736, 25342, 45168, 6568, 60148, 12836, 20376, 44794 >>,
          << 23826, 38795, 18725, 643, 40832, 17008, 1669, 34206 >>,
          << 45151, 23780, 21059, 5521, 24363, 42131, 1268, 49482 >>,
          << 10728, 28212, 60490, 62311, 8981, 5291, 26686, 40613 >> >>,
       << << 28550, 27107, 53662, 55630, 53324, 60291, 52211, 25617 >>,
          << 26588, 52931, 4587, 61142, 46585, 58832, 45299, 3321 >>,
          << 46427, 51992, 11333, 56973, 15183, 55346, 46308, 55265 >>,
          << 3839, 30096, 8859, 4957, 29443, 44186, 12440, 13460 >>,
          << 65009, 39984, 1200, 39767, 11341, 35966, 61632, 57416 >>,
          << 54907, 19655, 40006, 38416, 28525, 51570, 29010, 56548 >>,
          << 1487, 38726, 50338, 9416, 52127, 14354, 47743, 61703 >>,
          << 26112, 56117, 11402, 27316, 36591, 27382, 60218, 58187 >>,
          << 4285, 10171, 25272, 14545, 28181, 27254, 32305, 52577 >>,
          << 46422, 30075, 63792, 58304, 19327, 24528, 5735, 11722 >> >>,
       << << 1237, 13013, 12209, 58407, 18361, 50952, 56483, 20801 >>,
          << 7553, 43145, 164, 55945, 17076, 19036, 6239, 29307 >>,
          << 43761, 47669, 56532, 2183, 6172, 43245, 51001, 37675 >>,
          << 40873, 61859, 20232, 2393, 3131, 39020, 18955, 6655 >>,
          << 34670, 20380, 16447, 46169, 26577, 16794, 35204, 60866 >>,
          << 57130, 48751, 29470, 55736, 45399, 12052, 31152, 3468 >>,
          << 4632, 35414, 55278, 6961, 64361, 4018, 9080, 64401 >>,
          << 4237, 47710, 14336, 53103, 4502, 18743, 43354, 14436 >>,
          << 20588, 22881, 57326, 6444, 106, 48584, 22108, 47224 >>,
          << 39238, 1672, 22029, 52748, 18540, 39856, 43848, 47030 >> >>,
       << << 39794, 31483, 9301, 7565, 3509, 28826, 25493, 41037 >>,
          << 30074, 36931, 18750, 56179, 13192, 55062, 52068, 1925 >>,
          << 42445, 54629, 1110, 2257, 56783, 32662, 38552, 64071 >>,
          << 54198, 5765, 19931, 55994, 11068, 44823, 47140, 29635 >>,
          << 55625, 4129, 13071, 52131, 36553, 53980, 38020, 52092 >>,
          << 39495, 48794, 49553, 39002, 32270, 31353, 56694, 63704 >>,
          << 44649, 11439, 22917, 14751, 33002, 25218, 58154, 18248 >>,
          << 56453, 19308, 38428, 40316, 46325, 40626, 48083, 30071 >>,
          << 38307, 52937, 2436, 3942, 373, 18114, 60671, 2222 >>,
          << 1456, 15721, 58443, 29190, 34304, 25844, 2459, 27749 >> >>,
       << << 25173, 62710, 10455, 41173, 7627, 12283, 62142, 53865 >>,
          << 39291, 52085, 14656, 28330, 8003, 17607, 62652, 33421 >>,
          << 9683, 18218, 8853, 23236, 14775, 64593, 29756, 31744 >>,
          << 125, 50917, 10754, 36062, 46032, 57238, 26648, 29144 >>,
          << 28155, 32801, 55854, 54698, 16058, 33655, 30047, 21722 >>,
          << 35503, 6472, 52633, 44364, 24298, 3698, 28324, 50745 >>,
          << 61120, 42084, 17891, 26004, 62893, 21496, 36993, 39848 >>,
          << 48954, 24238, 27408, 61190, 975, 22339, 12148, 11396 >>,
          << 5350, 20955, 26988, 2195, 31883, 55984, 60205, 60062 >>,
          << 7654, 51508, 36498, 37763, 44600, 8026, 61189, 37887 >> >>,
       << << >>,
          << >>,
          << >>,
          << >>,
          << >>,
          << >>,
          << >>,
          << >>,
          << >>,
          << >> >> >>

InitHash ==
    /\ password \in { HashPasswords[i] : i \in 1..Len(HashPasswords) }
    /\ Constructed

\* lines 89-93 for a salt the server sent
Digest ==
    /\ last = "init"
    /\ \E j \in 1..Len(HashSalts) :
        LET dig == LoginDigest(password, HashSalts[j])
        IN  /\ arg' = [op |-> "digest", salt |-> HashSalts[j]]
            /\ IF dig = None
               THEN /\ err' = Error("UnicodeEncodeError")
                    /\ locals' = NoLocals
               ELSE /\ err' = NoError
                    /\ locals' = [NoLocals EXCEPT !.pw = dig[1].pw,
                                                  !.pw2 = dig[1].pw2]
    /\ last' = "digest"
    /\ UNCHANGED << password, user_id, year_id, headers_at, cookies,
                    client_state, pc, exc, req, resp, nreq, ops, last_at,
                    login_user_id, open_token, scope_logouts, last_exit >>

NextHash == Digest

SpecHash == InitHash /\ [][NextHash]_vars

----------------------------------------------------------------------------
(* The scoped session *)

\* C1: every scoped session that was entered posts auth/logout exactly once
\* on exit, whether its body returned or raised: none before the exit, one
\* request (the POST) in the exit, one when control is back with the caller.
LogoutExactlyOnce ==
    /\ pc \in { "scope", "exit" } => scope_logouts = 0
    /\ (pc = "idle" /\ last_exit = "exited") => scope_logouts = 1
    /\ last = "logout" =>
          /\ nreq = 1
          /\ req.method = "POST"
          /\ req.path = << "auth/logout" >>

\* A scope whose body raised has been left: the error is with the caller.
LogoutAfterRaise ==
    /\ pc = "idle"
    /\ last = "logout"
    /\ last_exit = "exited"
    /\ err.type = "BodyError"
    /\ scope_logouts = 1

\* C2 as stated: whenever control is back with the caller, every token the
\* login POST returned has been followed by an auth/logout POST.
TokenAlwaysLoggedOut == pc = "idle" => ~open_token

\* C2: once __aenter__ has returned, control comes back to the caller only
\* after an auth/logout POST, whether the body returned or raised; a token
\* is left without logout only by a login that failed after the token.
ScopeExitLogsOut ==
    /\ (pc = "idle" /\ last_exit = "exited") => ~open_token
    /\ (pc = "idle" /\ open_token) =>
          /\ last_exit = "login_failed"
          /\ last_at # None

\* A scope whose body returned has been left, and its token logged out.
LoggedOutAfterReturn ==
    /\ pc = "idle"
    /\ last = "logout"
    /\ last_exit = "exited"
    /\ err.type = "None"
    /\ last_at # None
    /\ ~open_token

----------------------------------------------------------------------------
(* The login response *)

\* C3: a login response without "at" raises Login Data Error when its message
\* has exactly 29 characters and the generic API error with that message for
\* any other length; a response with "at" raises neither.
LoginClassification ==
    (last = "login" /\ resp.kind = "json") =>
        IF "at" \in DOMAIN resp.body
        THEN /\ err = NoError
             /\ pc = "init"
        ELSE "message" \in DOMAIN resp.body =>
                /\ pc = "idle"
                /\ IF Len(resp.body.message) = 29
                   THEN err = Error("LoginDataError")
                   ELSE err = [type |-> "NetSchoolAPIError",
                               msg |-> resp.body.message]

\* The login response carried a message of 30 characters.
LoginRejectedLongMessage ==
    /\ last = "login"
    /\ resp.kind = "json"
    /\ "at" \notin DOMAIN resp.body
    /\ "message" \in DOMAIN resp.body
    /\ Len(resp.body.message) = 30
    /\ err.type = "NetSchoolAPIError"

----------------------------------------------------------------------------
(* The HTTP client *)

\* C9: no operation closes the HTTP client: it stays usable for the
\* lifetime of the object.
ClientNeverClosed == client_state # "closed"

----------------------------------------------------------------------------
(* The access token *)

\* A step that issues a request.
Issued == nreq' >= 1 /\ ~(pc = "scope" /\ pc' = "exit")

\* C4: every request carries, as its "at" header, the token of the latest
\* login response that had one, and no "at" header before the first such
\* response: the requests of login that follow the token, every
\* data-retrieval request and POST auth/logout.
TokenCarried == [][Issued => req'.at = last_at]_vars

\* A data-retrieval request went out with the token of a login.
DiarySentWithToken ==
    /\ last = "get_diary"
    /\ nreq = 1
    /\ req.path = << "student/diary" >>
    /\ req.at = Some("T2")
    /\ last_at = Some("T2")

\* C10: logout posts auth/logout and leaves the "at" header, the student id
\* and the school-year id as login stored them, so a data-retrieval call
\* after logout sends the same token and identifiers.
LogoutKeepsSession ==
    /\ last = "logout" =>
          /\ req.method = "POST"
          /\ req.path = << "auth/logout" >>
    /\ (pc = "idle" /\ last_exit = "exited") =>
          /\ headers_at # None
          /\ headers_at = last_at
          /\ user_id # None
          /\ user_id = login_user_id
          /\ year_id # None
          /\ (last = "get_diary" /\ nreq = 1) =>
                /\ req.at = last_at
                /\ req.params.studentId = login_user_id
                /\ req.params.yearId = year_id
          /\ last = "get_attachments" =>
                /\ req.at = last_at
                /\ req.params.studentId = login_user_id

\* get_diary was called after the scope was left, without a new login.
DiaryAfterLogout ==
    /\ pc = "idle"
    /\ last_exit = "exited"
    /\ last = "get_diary"
    /\ nreq = 1
    /\ req.at # None
    /\ req.params.studentId # None

----------------------------------------------------------------------------
(* The data-retrieval calls *)

IsDigit(c) == c >= 48 /\ c <= 57

IsIso(s) ==
    /\ Len(s) = 10
    /\ s[5] = 45
    /\ s[8] = 45
    /\ \A i \in { 1, 2, 3, 4, 6, 7, 9, 10 } : IsDigit(s[i])

\* The date a YYYY-MM-DD text denotes.
ParseIso(s) ==
    [y |-> 1000 * (s[1] - 48) + 100 * (s[2] - 48) + 10 * (s[3] - 48)
           + (s[4] - 48),
     m |-> 10 * (s[6] - 48) + (s[7] - 48),
     d |-> 10 * (s[9] - 48) + (s[10] - 48)]

\* The Monday of the week of each date of Todays, from the calendar.
MondayOf(today) ==
    CASE today = [y |-> 2020, m |-> 11, d |-> 5] -> [y |-> 2020, m |-> 11, d |-> 2]
      [] today = [y |-> 2020, m |-> 3, d |-> 1] -> [y |-> 2020, m |-> 2, d |-> 24]
      [] today = [y |-> 2021, m |-> 1, d |-> 1] -> [y |-> 2020, m |-> 12, d |-> 28]
      [] today = [y |-> 2024, m |-> 2, d |-> 26] -> [y |-> 2024, m |-> 2, d |-> 26]

\* The day five days after that Monday.
SaturdayOf(today) ==
    CASE today = [y |-> 2020, m |-> 11, d |-> 5] -> [y |-> 2020, m |-> 11, d |-> 7]
      [] today = [y |-> 2020, m |-> 3, d |-> 1] -> [y |-> 2020, m |-> 2, d |-> 29]
      [] today = [y |-> 2021, m |-> 1, d |-> 1] -> [y |-> 2021, m |-> 1, d |-> 2]
      [] today = [y |-> 2024, m |-> 2, d |-> 26] -> [y |-> 2024, m |-> 3, d |-> 2]

\* C6: get_diary sends weekStart and weekEnd as YYYY-MM-DD; with no
\* arguments weekStart is the Monday of the current week (the latest Monday
\* on or before today) and weekEnd the day five days later; week_end omitted
\* gives week_start + 5 days; a bound that is supplied is sent unchanged.
DiaryWeek ==
    (last = "get_diary" /\ nreq = 1) =>
        LET s == req.params.weekStart
            e == req.params.weekEnd
        IN  /\ IsIso(s)
            /\ IsIso(e)
            /\ arg.week_start # None => ParseIso(s) = arg.week_start[1]
            /\ arg.week_end # None => ParseIso(e) = arg.week_end[1]
            /\ arg.week_start = None =>
                  /\ ParseIso(s) = MondayOf(arg.today[1])
                  /\ ToOrdinal(ParseIso(s)) % 7 = 1
                  /\ ToOrdinal(ParseIso(s)) <= ToOrdinal(arg.today[1])
                  /\ ToOrdinal(arg.today[1]) - ToOrdinal(ParseIso(s)) <= 6
            /\ arg.week_end = None =>
                  /\ ToOrdinal(ParseIso(e)) = ToOrdinal(ParseIso(s)) + 5
                  /\ arg.week_start = None =>
                        ParseIso(e) = SaturdayOf(arg.today[1])

\* get_diary() was called with no arguments on Sunday 2020-03-01.
DiaryDefaultsOnSunday ==
    /\ last = "get_diary"
    /\ nreq = 1
    /\ arg.week_start = None
    /\ arg.week_end = None
    /\ arg.today = Some([y |-> 2020, m |-> 3, d |-> 1])
    /\ ParseIso(req.params.weekEnd) = [y |-> 2020, m |-> 2, d |-> 29]

\* C7: get_attachments issues exactly one request, a POST to
\* student/diary/get-attachments whose JSON body is {assignId: ids} with the
\* ids of the assignments in the order and multiplicity of the list, and
\* whose studentId parameter is the student id the last login stored.
AttachmentsRequest ==
    last = "get_attachments" =>
        /\ nreq = 1
        /\ req.method = "POST"
        /\ req.path = << "student/diary/get-attachments" >>
        /\ DOMAIN req.json = { "assignId" }
        /\ Len(req.json.assignId) = Len(arg.assignments)
        /\ \A i \in 1..Len(arg.assignments) :
              req.json.assignId[i] = arg.assignments[i].id
        /\ DOMAIN req.params = { "studentId" }
        /\ req.params.studentId = login_user_id

\* get_attachments was called after a login with two different assignments.
AttachmentsOfTwo ==
    /\ last = "get_attachments"
    /\ Len(arg.assignments) = 2
    /\ arg.assignments[1].id # arg.assignments[2].id
    /\ req.params.studentId # None

----------------------------------------------------------------------------
(* The response decoder *)

DecodedSteps ==
    { "getdata", "login", "diary/init", "context", "get_diary",
      "get_announcements", "get_details", "get_attachments" }

UndecodedSteps == { "logindata", "logout" }

\* C8 as stated: a body that is not JSON, returned to any request of
\* client.py, makes the operation raise Invalid Response.
EveryResponseDecoded ==
    (nreq >= 1 /\ resp.kind = "text"
       /\ last \in DecodedSteps \cup UndecodedSteps) =>
        err.type = "InvalidResponse"

\* C8: the responses of POST auth/getdata, POST login, GET
\* student/diary/init, GET context and of every data-retrieval request go
\* through the decoder, so a body that is not JSON raises Invalid Response;
\* those of GET logindata and POST auth/logout do not: such a body raises
\* nothing there.
DecodedWhereUsed ==
    (nreq >= 1 /\ resp.kind = "text") =>
        /\ last \in DecodedSteps => err.type = "InvalidResponse"
        /\ last \in UndecodedSteps => err.type # "InvalidResponse"
        /\ last = "logindata" => (err = NoError /\ pc = "getdata")

\* A data-retrieval call got a body that is not JSON.
DetailsGotHtml ==
    /\ last = "get_details"
    /\ nreq = 1
    /\ resp.kind = "text"
    /\ err.type = "InvalidResponse"

----------------------------------------------------------------------------
(* The password digests *)

Hex4(n) ==
    << HexDigit(n \div 4096), HexDigit((n \div 256) % 16),
       HexDigit((n \div 16) % 16), HexDigit(n % 16) >>

\* The 32 hexadecimal digits of an entry of ReferenceDigests (none for a
\* password that cannot be encoded).
ReferencePw2(pwd, slt) ==
    LET i == CHOOSE k \in 1..Len(HashPasswords) : HashPasswords[k] = pwd
        j == CHOOSE k \in 1..Len(HashSalts) : HashSalts[k] = slt
    IN  Flatten([k \in 1..Len(ReferenceDigests[i][j]) |->
                    Hex4(ReferenceDigests[i][j][k])])

Digested == last = "digest" /\ err = NoError

\* C5 as stated: pw2 is the hex MD5 of the salt followed by the hex MD5 of
\* the windows-1251 bytes of the password, pw is a prefix of pw2, and pw has
\* as many characters as the password.
DigestLengthOfPassword ==
    Digested =>
        /\ locals.pw2 = ReferencePw2(password, arg.salt)
        /\ IsPrefix(locals.pw, locals.pw2)
        /\ Len(locals.pw) = Len(password)

\* C5: pw2 is the hex MD5 of the salt followed by the hex MD5 of the
\* windows-1251 bytes of the password: 32 lower-case hexadecimal digits;
\* pw is a prefix of pw2 and has as many characters as the password, or 32
\* when the password has more.
DigestPair ==
    Digested =>
        /\ locals.pw2 = ReferencePw2(password, arg.salt)
        /\ Len(locals.pw2) = 32
        /\ \A i \in 1..32 :
              \/ IsDigit(locals.pw2[i])
              \/ (locals.pw2[i] >= 97 /\ locals.pw2[i] <= 102)
        /\ IsPrefix(locals.pw, locals.pw2)
        /\ Len(locals.pw) =
              IF Len(password) <= 32 THEN Len(password) ELSE 32

\* The digests of a Cyrillic password were computed.
CyrillicDigested ==
    /\ Digested
    /\ password = << 1087, 1072, 1088 >>
    /\ arg.salt = << 1089, 1086, 1083, 1100 >>
    /\ Len(locals.pw) = 3

====
